---- MODULE Spec2Model ----
(***************************************************************************)
(* Model of src/main.py: one run of the Apple Music -> Spotify playlist    *)
(* sync (main), with its three stages get_apple_music_tracks,              *)
(* find_spotify_tracks and update_spotify_playlist.                        *)
(*                                                                         *)
(* Strings are sequences of one-character strings, so that formatting      *)
(* (f-strings), str.lower(), str.strip() and re.sub are computed, not      *)
(* assumed.  The two remote services are the environment: the source       *)
(* playlist is a sequence of raw records served by offset, the search API  *)
(* answers every call with a hit, an empty result or an exception, and     *)
(* every remote call may raise.                                            *)
(*                                                                         *)
(* The code's page size (limit=100, line 41/54/59) and chunk size (100,    *)
(* line 139/140) are scaled down to PageLimit and ChunkSize so that        *)
(* playlists of several pages and several chunks fit in the bounds.        *)
(***************************************************************************)
EXTENDS Integers, Sequences, FiniteSets, TLC

VARIABLES
    pc,                \* position of the run in main and its callees
    exit,              \* the message class the run ended with ("" while running)
    endless,           \* the source answers every offset with a full page
    playlist,          \* the source (Apple Music) playlist: raw records
    dest,              \* the destination (Spotify) playlist: track ids
    dest0,             \* history: the destination playlist at the start of the run
    offset,            \* get_apple_music_tracks: offset
    all_tracks,        \* get_apple_music_tracks: all_tracks
    apple_tracks,      \* main: apple_tracks (None or a list)
    i,                 \* find_spotify_tracks: number of tracks processed
    found_tracks,      \* find_spotify_tracks: found_tracks / main: spotify_tracks
    not_found_tracks,  \* find_spotify_tracks: not_found_tracks
    proceed,           \* main: proceed (the lowered answer)
    sorted_track_ids,  \* update_spotify_playlist: sorted_track_ids
    ci,                \* update_spotify_playlist: i of range(0, len, 100)
    calls,             \* history: the remote/console calls issued, in order
    requests,          \* history: the page requests (offset, size of the page served)
    searches,          \* history: the search calls (track index, query, response)
    writes             \* history: the destination write calls (op, items, ok)

vars == <<pc, exit, endless, playlist, dest, dest0, offset, all_tracks, apple_tracks, i,
          found_tracks, not_found_tracks, proceed, sorted_track_ids, ci,
          calls, requests, searches, writes>>

-----------------------------------------------------------------------------
(* Bounds *)

\* scaled page size of the source API (limit=100 in the code)
PageLimit == 2
\* scaled batch size of the destination API (100 in the code)
ChunkSize == 2
\* longest source playlist of the fetch specification
MaxRaw == 5
\* longest source playlist of the whole-run specification
MaxRunRaw == 3
\* longest source track list of the matching specification
MaxTracks == 3
\* longest matched list of the reconciliation specification
MaxMatched == 5
\* number of pages requested from a source that never serves a short page
MaxEndlessPages == 3
\* longest title of the title specification
MaxTitleLen == 4
\* longest playlist of the fair specification
MaxFairRaw == 2

\* Python values that are None or a list
None == [none |-> TRUE, list |-> <<>>]
List(x) == [none |-> FALSE, list |-> x]

Min(a, b) == IF a < b THEN a ELSE b

SeqsUpTo(S, n) == UNION {[1..k -> S] : k \in 0..n}

-----------------------------------------------------------------------------
(* Strings *)

UpperLetters == <<"A","B","C","D","E","F","G","H","I","J","K","L","M",
                  "N","O","P","Q","R","S","T","U","V","W","X","Y","Z">>
LowerLetters == <<"a","b","c","d","e","f","g","h","i","j","k","l","m",
                  "n","o","p","q","r","s","t","u","v","w","x","y","z">>

IndexOf(seq, c) == CHOOSE k \in 1..Len(seq) : seq[k] = c

IsUpper(c) == \E k \in 1..Len(UpperLetters) : UpperLetters[k] = c
IsLower(c) == \E k \in 1..Len(LowerLetters) : LowerLetters[k] = c

Punctuation == {" ", "(", ")", "-", ":", "[", "]"}
Characters ==
    {UpperLetters[k] : k \in 1..26} \cup {LowerLetters[k] : k \in 1..26} \cup Punctuation

\* the code point of every character
CodePoints ==
    [c \in Characters |->
        IF IsUpper(c) THEN 64 + IndexOf(UpperLetters, c)
        ELSE IF IsLower(c) THEN 96 + IndexOf(LowerLetters, c)
        ELSE CASE c = " " -> 32
               [] c = "(" -> 40
               [] c = ")" -> 41
               [] c = "-" -> 45
               [] c = ":" -> 58
               [] c = "[" -> 91
               [] c = "]" -> 93]
Ord(c) == CodePoints[c]

\* str.lower() of every character
LowerCased ==
    [c \in Characters |->
        IF IsUpper(c) THEN LowerLetters[IndexOf(UpperLetters, c)] ELSE c]
LowerChar(c) == LowerCased[c]

\* str.lower()
StrLower(s) == [k \in 1..Len(s) |-> LowerChar(s[k])]

\* s < t for Python strings: lexicographic by code point
RECURSIVE StrLess(_, _)
StrLess(s, t) ==
    IF t = <<>> THEN FALSE
    ELSE IF s = <<>> THEN TRUE
    ELSE IF Ord(Head(s)) < Ord(Head(t)) THEN TRUE
    ELSE IF Ord(Head(s)) > Ord(Head(t)) THEN FALSE
    ELSE StrLess(Tail(s), Tail(t))

IsSpace(c) == c = " "

\* str.strip()
RECURSIVE LStrip(_)
LStrip(s) == IF s # <<>> /\ IsSpace(Head(s)) THEN LStrip(Tail(s)) ELSE s
RECURSIVE RStrip(_)
RStrip(s) ==
    IF s # <<>> /\ IsSpace(s[Len(s)]) THEN RStrip(SubSeq(s, 1, Len(s) - 1)) ELSE s
Strip(s) == RStrip(LStrip(s))

-----------------------------------------------------------------------------
(* re.sub(r'\s*\([^)]*\)|\s*\[[^\]]*\]', '', name).strip()  (line 93) *)

\* first position >= p that holds no whitespace (Len(s)+1 when there is none)
RECURSIVE SkipSpaces(_, _)
SkipSpaces(s, p) ==
    IF p <= Len(s) /\ IsSpace(s[p]) THEN SkipSpaces(s, p + 1) ELSE p

\* first position >= p that holds character c, 0 when there is none
RECURSIVE FirstAt(_, _, _)
FirstAt(s, p, c) ==
    IF p > Len(s) THEN 0
    ELSE IF s[p] = c THEN p
    ELSE FirstAt(s, p + 1, c)

\* position of the last character of the pattern's match that starts at p,
\* 0 when the pattern does not match at p: \s* takes the whole whitespace
\* run, then "(" [^)]* ")" or "[" [^]]* "]" up to the first closing character
MatchEnd(s, p) ==
    LET q == SkipSpaces(s, p) IN
    IF q > Len(s) THEN 0
    ELSE IF s[q] = "(" THEN FirstAt(s, q + 1, ")")
    ELSE IF s[q] = "[" THEN FirstAt(s, q + 1, "]")
    ELSE 0

\* re.sub(pattern, '', s) from position p on: leftmost non-overlapping matches
RECURSIVE ReSub(_, _)
ReSub(s, p) ==
    IF p > Len(s) THEN <<>>
    ELSE LET e == MatchEnd(s, p) IN
         IF e # 0 THEN ReSub(s, e + 1)
         ELSE <<s[p]>> \o ReSub(s, p + 1)

\* a cleaning without the .strip()
CleanTitleNoStrip(name) == ReSub(name, 1)

CleanTitle(name) == Strip(ReSub(name, 1))

-----------------------------------------------------------------------------
(* Formatting *)

\* f"track:{name} artist:{artist}"  (lines 86, 97)
Query(name, artist) ==
    <<"t","r","a","c","k",":">> \o name
        \o <<" ","a","r","t","i","s","t",":">> \o artist

\* f"{artist} - {name}"  (line 111)
NotFoundEntry(artist, name) == artist \o <<" ","-"," ">> \o name

\* f"{artist} - {name} (Error during search)"  (line 115)
ErrorEntry(artist, name) ==
    artist \o <<" ","-"," ">> \o name
        \o <<" ","(","E","r","r","o","r"," ","d","u","r","i","n","g"," ",
             "s","e","a","r","c","h",")">>

-----------------------------------------------------------------------------
(* The data of the two services *)

ArtistX == <<"X">>
TitleS == <<"S">>
TitleFeat == <<"S"," ","(","f",")">>
TitleLead == <<" ","S">>

TitleFeatLive == <<"S"," ","(","f",")","S">>

\* the characters the titles of the title specification are made of
TitleChars == {"S", " ", "(", ")", "[", "]"}

\* the titles of the title specification
Titles == SeqsUpTo(TitleChars, MaxTitleLen) \cup {TitleFeat, TitleFeatLive}

SrcTrack(a, n) == [artist |-> a, name |-> n]

\* raw records of the source API: a well-formed one and the three malformed shapes
RawTrack(a, n) == [type |-> "songs", attributes |-> [artistName |-> a, name |-> n]]
RawNoAttributes == [type |-> "songs"]
RawNoArtist(n) == [type |-> "songs", attributes |-> [name |-> n]]
RawNoName(a) == [type |-> "songs", attributes |-> [artistName |-> a]]

\* the raw records a playlist of the fetch specification is made of
RawKinds ==
    {RawTrack(ArtistX, TitleS), RawTrack(ArtistX, TitleFeat),
     RawNoAttributes, RawNoArtist(TitleS), RawNoName(ArtistX)}

\* the raw records a playlist of the whole-run specification is made of
RunRawKinds ==
    {RawTrack(ArtistX, TitleS), RawTrack(ArtistX, TitleFeat), RawNoAttributes}

\* result records of the destination search API
Item(id, artist, name) == [id |-> id, name |-> name, artists |-> <<[name |-> artist]>>]

ItemZe1 == Item("t1", <<"Z","e">>, TitleS)
ItemAl == Item("t2", <<"a","l">>, TitleS)
ItemZe2 == Item("t3", <<"Z","e">>, TitleFeat)
Itemze == Item("t4", <<"z","e">>, TitleS)

\* what a search may return as its first item
Catalog == {ItemZe1, ItemAl}

\* a response of sp.search(q, type='track', limit=1): it raises, or it returns
\* result['tracks']['items'], a list of at most one item
SearchOutcomes ==
    {[kind |-> "error", items |-> <<>>], [kind |-> "ok", items |-> <<>>]}
        \cup {[kind |-> "ok", items |-> <<it>>] : it \in Catalog}

\* the source tracks of the matching specification
MatchTracks ==
    {SrcTrack(ArtistX, TitleS), SrcTrack(ArtistX, TitleFeat), SrcTrack(ArtistX, TitleLead)}

\* the matched tracks of the reconciliation specification
FoundTrack(it) == [id |-> it.id, artist |-> it.artists[1].name, name |-> it.name]
MatchedPool == {FoundTrack(it) : it \in {ItemZe1, ItemAl, ItemZe2, Itemze}}

\* the answers typed at the confirmation prompt
Answers == {<<"y">>, <<"Y">>, <<"n">>, <<>>, <<"y","e","s">>}

\* contents of the destination playlist before the run
InitialDests == {<<>>, <<"t9","t1">>}

-----------------------------------------------------------------------------
(* get_apple_music_tracks *)

\* line 48
Wellformed(track) ==
    /\ "attributes" \in DOMAIN track
    /\ "artistName" \in DOMAIN track.attributes
    /\ "name" \in DOMAIN track.attributes

\* a page loop that stops at the first malformed record instead of skipping it
RECURSIVE PageTracksUntilMalformed(_)
PageTracksUntilMalformed(page) ==
    IF page = <<>> \/ ~Wellformed(Head(page)) THEN <<>>
    ELSE <<[artist |-> Head(page).attributes.artistName,
            name |-> Head(page).attributes.name]>>
            \o PageTracksUntilMalformed(Tail(page))

\* lines 46-51: the tracks one page adds to all_tracks
PageTracks(page) ==
    LET good == SelectSeq(page, Wellformed) IN
    [k \in 1..Len(good) |->
        [artist |-> good[k].attributes.artistName, name |-> good[k].attributes.name]]

\* a last-page test that also stops at a page without a usable entry
IsLastPageOrUnusable(page) == Len(page) < PageLimit \/ PageTracks(page) = <<>>

\* a last-page test that takes a full page for the last one
IsLastPageOrFull(page) == Len(page) <= PageLimit

\* a last-page test that counts only the usable entries of the page
IsLastPageByUsable(page) == Len(PageTracks(page)) < PageLimit

\* line 54: the page is the last one
IsLastPage(page) == Len(page) < PageLimit

\* the source API: playlist_relationship(id, 'tracks', limit, offset); an
\* endless source answers every offset with a full page
ServePage(off) ==
    IF endless
    THEN [k \in 1..PageLimit |-> RawTrack(ArtistX, TitleS)]
    ELSE SubSeq(playlist, off + 1, Min(off + PageLimit, Len(playlist)))

\* a test that takes only None for "no tracks"
FalsyOnlyNone(x) == x.none

\* "if not apple_tracks" (line 167): None and the empty list are both falsy
Falsy(x) == x.none \/ x.list = <<>>

\* main, lines 166-168, on the value get_apple_music_tracks returned
AfterFetch(ret) ==
    /\ apple_tracks' = ret
    /\ IF Falsy(ret)
       THEN /\ pc' = "Aborted"
            /\ exit' = IF ret.none THEN "fetch error" ELSE "nothing fetched"
       ELSE /\ pc' = "match"
            /\ exit' = exit

\* lines 28-36: read the key file and build the client
Connect ==
    /\ pc = "connect"
    /\ \E ok \in BOOLEAN :
        IF ok
        THEN /\ all_tracks' = <<>>
             /\ offset' = 0
             /\ pc' = "page"
             /\ UNCHANGED <<exit, apple_tracks>>
        ELSE /\ AfterFetch(None)
             /\ UNCHANGED <<all_tracks, offset>>
    /\ UNCHANGED <<endless, playlist, dest, dest0, i, found_tracks, not_found_tracks, proceed,
                   sorted_track_ids, ci, calls, requests, searches, writes>>

\* a page loop that returns the tracks read so far when a request raises
FetchPagePartial ==
    /\ pc = "page"
    /\ endless => Len(requests) < MaxEndlessPages
    /\ calls' = Append(calls, "playlist_relationship")
    /\ \E ok \in BOOLEAN :
        IF ok
        THEN LET page == ServePage(offset)
                 tracks == all_tracks \o PageTracks(page) IN
             /\ requests' = Append(requests, [offset |-> offset, n |-> Len(page), ok |-> TRUE])
             /\ all_tracks' = tracks
             /\ IF IsLastPage(page)
                THEN /\ AfterFetch(List(tracks))
                     /\ offset' = offset
                ELSE /\ offset' = offset + PageLimit
                     /\ UNCHANGED <<pc, exit, apple_tracks>>
        ELSE /\ requests' = Append(requests, [offset |-> offset, n |-> 0, ok |-> FALSE])
             /\ AfterFetch(List(all_tracks))
             /\ UNCHANGED <<all_tracks, offset>>
    /\ UNCHANGED <<endless, playlist, dest, dest0, i, found_tracks, not_found_tracks, proceed,
                   sorted_track_ids, ci, searches, writes>>

\* lines 38-69: one iteration of the page loop
FetchPage ==
    /\ pc = "page"
    /\ endless => Len(requests) < MaxEndlessPages
    /\ calls' = Append(calls, "playlist_relationship")
    /\ \E ok \in BOOLEAN :
        IF ok
        THEN LET page == ServePage(offset)
                 tracks == all_tracks \o PageTracks(page) IN
             /\ requests' = Append(requests, [offset |-> offset, n |-> Len(page), ok |-> TRUE])
             /\ all_tracks' = tracks
             /\ IF IsLastPage(page)
                THEN /\ AfterFetch(List(tracks))
                     /\ offset' = offset
                ELSE /\ offset' = offset + PageLimit
                     /\ UNCHANGED <<pc, exit, apple_tracks>>
        ELSE /\ requests' = Append(requests, [offset |-> offset, n |-> 0, ok |-> FALSE])
             /\ AfterFetch(None)
             /\ UNCHANGED <<all_tracks, offset>>
    /\ UNCHANGED <<endless, playlist, dest, dest0, i, found_tracks, not_found_tracks, proceed,
                   sorted_track_ids, ci, searches, writes>>

-----------------------------------------------------------------------------
(* main: authentication *)

\* an authentication that reports the failure and goes on (no return)
AuthenticateNoReturn ==
    /\ pc = "auth"
    /\ calls' = Append(calls, "me")
    /\ \E ok \in BOOLEAN :
        IF ok
        THEN pc' = "connect" /\ exit' = exit
        ELSE pc' = "connect" /\ exit' = "auth error"
    /\ UNCHANGED <<endless, playlist, dest, dest0, offset, all_tracks, apple_tracks, i,
                   found_tracks, not_found_tracks, proceed, sorted_track_ids, ci,
                   requests, searches, writes>>

\* lines 150-163
Authenticate ==
    /\ pc = "auth"
    /\ calls' = Append(calls, "me")
    /\ \E ok \in BOOLEAN :
        IF ok
        THEN pc' = "connect" /\ exit' = exit
        ELSE pc' = "Aborted" /\ exit' = "auth error"
    /\ UNCHANGED <<endless, playlist, dest, dest0, offset, all_tracks, apple_tracks, i,
                   found_tracks, not_found_tracks, proceed, sorted_track_ids, ci,
                   requests, searches, writes>>

-----------------------------------------------------------------------------
(* find_spotify_tracks *)

\* a loop body that drops a track whose search raised
MatchDropsError(track, r1, r2) ==
    LET artist == track.artist
        name == track.name
        cleaned_name == CleanTitle(name)
        again == r1.kind = "ok" /\ r1.items = <<>> /\ cleaned_name # name
        result == IF again THEN r2 ELSE r1
        queries == IF again
                   THEN <<Query(name, artist), Query(cleaned_name, artist)>>
                   ELSE <<Query(name, artist)>>
        responses == IF again THEN <<r1, r2>> ELSE <<r1>>
    IN  IF result.kind = "error"
        THEN [found |-> <<>>, not_found |-> <<>>,
              queries |-> queries, responses |-> responses]
        ELSE IF result.items # <<>>
        THEN [found |-> <<FoundTrack(result.items[1])>>, not_found |-> <<>>,
              queries |-> queries, responses |-> responses]
        ELSE [found |-> <<>>, not_found |-> <<NotFoundEntry(artist, name)>>,
              queries |-> queries, responses |-> responses]

\* a loop body that reports a search that raised as a plain "not found"
MatchErrorAsNotFound(track, r1, r2) ==
    LET artist == track.artist
        name == track.name
        cleaned_name == CleanTitle(name)
        again == r1.kind = "ok" /\ r1.items = <<>> /\ cleaned_name # name
        result == IF again THEN r2 ELSE r1
        queries == IF again
                   THEN <<Query(name, artist), Query(cleaned_name, artist)>>
                   ELSE <<Query(name, artist)>>
        responses == IF again THEN <<r1, r2>> ELSE <<r1>>
    IN  IF result.kind = "ok" /\ result.items # <<>>
        THEN [found |-> <<FoundTrack(result.items[1])>>, not_found |-> <<>>,
              queries |-> queries, responses |-> responses]
        ELSE [found |-> <<>>, not_found |-> <<NotFoundEntry(artist, name)>>,
              queries |-> queries, responses |-> responses]

\* a loop body that keeps the source's artist and title with the id found
MatchKeepsSourceNames(track, r1, r2) ==
    LET artist == track.artist
        name == track.name
        cleaned_name == CleanTitle(name)
        again == r1.kind = "ok" /\ r1.items = <<>> /\ cleaned_name # name
        result == IF again THEN r2 ELSE r1
        queries == IF again
                   THEN <<Query(name, artist), Query(cleaned_name, artist)>>
                   ELSE <<Query(name, artist)>>
        responses == IF again THEN <<r1, r2>> ELSE <<r1>>
    IN  IF result.kind = "error"
        THEN [found |-> <<>>, not_found |-> <<ErrorEntry(artist, name)>>,
              queries |-> queries, responses |-> responses]
        ELSE IF result.items # <<>>
        THEN [found |-> <<[id |-> result.items[1].id, artist |-> artist, name |-> name]>>,
              not_found |-> <<>>,
              queries |-> queries, responses |-> responses]
        ELSE [found |-> <<>>, not_found |-> <<NotFoundEntry(artist, name)>>,
              queries |-> queries, responses |-> responses]

\* a loop body that searches again whether or not the title changed
MatchAlwaysAgain(track, r1, r2) ==
    LET artist == track.artist
        name == track.name
        cleaned_name == CleanTitle(name)
        again == r1.kind = "ok" /\ r1.items = <<>>
        result == IF again THEN r2 ELSE r1
        queries == IF again
                   THEN <<Query(name, artist), Query(cleaned_name, artist)>>
                   ELSE <<Query(name, artist)>>
        responses == IF again THEN <<r1, r2>> ELSE <<r1>>
    IN  IF result.kind = "error"
        THEN [found |-> <<>>, not_found |-> <<ErrorEntry(artist, name)>>,
              queries |-> queries, responses |-> responses]
        ELSE IF result.items # <<>>
        THEN [found |-> <<FoundTrack(result.items[1])>>, not_found |-> <<>>,
              queries |-> queries, responses |-> responses]
        ELSE [found |-> <<>>, not_found |-> <<NotFoundEntry(artist, name)>>,
              queries |-> queries, responses |-> responses]

\* a loop body that keeps the first response although it searched again
MatchIgnoresSecond(track, r1, r2) ==
    LET artist == track.artist
        name == track.name
        cleaned_name == CleanTitle(name)
        again == r1.kind = "ok" /\ r1.items = <<>> /\ cleaned_name # name
        queries == IF again
                   THEN <<Query(name, artist), Query(cleaned_name, artist)>>
                   ELSE <<Query(name, artist)>>
        responses == IF again THEN <<r1, r2>> ELSE <<r1>>
    IN  IF r1.kind = "error"
        THEN [found |-> <<>>, not_found |-> <<ErrorEntry(artist, name)>>,
              queries |-> queries, responses |-> responses]
        ELSE IF r1.items # <<>>
        THEN [found |-> <<FoundTrack(r1.items[1])>>, not_found |-> <<>>,
              queries |-> queries, responses |-> responses]
        ELSE [found |-> <<>>, not_found |-> <<NotFoundEntry(artist, name)>>,
              queries |-> queries, responses |-> responses]

\* lines 78-115: the body of the loop for one track, given the response r1 of
\* the first search and the response r2 the second search gets if it is issued.
\* found / not_found are what the iteration appends to the two lists, queries
\* the searches it issues.
Match(track, r1, r2) ==
    LET artist == track.artist
        name == track.name
        cleaned_name == CleanTitle(name)
        again == r1.kind = "ok" /\ r1.items = <<>> /\ cleaned_name # name
        result == IF again THEN r2 ELSE r1
        queries == IF again
                   THEN <<Query(name, artist), Query(cleaned_name, artist)>>
                   ELSE <<Query(name, artist)>>
        responses == IF again THEN <<r1, r2>> ELSE <<r1>>
    IN  IF result.kind = "error"
        THEN [found |-> <<>>, not_found |-> <<ErrorEntry(artist, name)>>,
              queries |-> queries, responses |-> responses]
        ELSE IF result.items # <<>>
        THEN [found |-> <<FoundTrack(result.items[1])>>, not_found |-> <<>>,
              queries |-> queries, responses |-> responses]
        ELSE [found |-> <<>>, not_found |-> <<NotFoundEntry(artist, name)>>,
              queries |-> queries, responses |-> responses]

\* lines 77-117: one iteration of the loop over apple_tracks
MatchTrack ==
    /\ pc = "match"
    /\ i < Len(apple_tracks.list)
    /\ \E r1 \in SearchOutcomes, r2 \in SearchOutcomes :
        LET m == Match(apple_tracks.list[i + 1], r1, r2) IN
        /\ found_tracks' = found_tracks \o m.found
        /\ not_found_tracks' = not_found_tracks \o m.not_found
        /\ searches' = searches \o
                [k \in 1..Len(m.queries) |->
                    [i |-> i + 1, q |-> m.queries[k], res |-> m.responses[k]]]
        /\ calls' = calls \o [k \in 1..Len(m.queries) |-> "search"]
    /\ i' = i + 1
    /\ UNCHANGED <<pc, exit, endless, playlist, dest, dest0, offset, all_tracks, apple_tracks,
                   proceed, sorted_track_ids, ci, requests, writes>>

-----------------------------------------------------------------------------
(* main: review and confirmation *)

\* a review that goes on to the update without asking
ReviewSkipsPrompt ==
    /\ pc = "match"
    /\ i = Len(apple_tracks.list)
    /\ IF found_tracks = <<>>
       THEN pc' = "Aborted" /\ exit' = "no tracks to sync"
       ELSE pc' = "update" /\ exit' = exit
    /\ UNCHANGED <<endless, playlist, dest, dest0, offset, all_tracks, apple_tracks, i,
                   found_tracks, not_found_tracks, proceed, sorted_track_ids, ci,
                   calls, requests, searches, writes>>

\* lines 119-120 and 171-194: the search is complete, the report is printed
Review ==
    /\ pc = "match"
    /\ i = Len(apple_tracks.list)
    /\ IF found_tracks = <<>>
       THEN pc' = "Aborted" /\ exit' = "no tracks to sync"
       ELSE pc' = "prompt" /\ exit' = exit
    /\ UNCHANGED <<endless, playlist, dest, dest0, offset, all_tracks, apple_tracks, i,
                   found_tracks, not_found_tracks, proceed, sorted_track_ids, ci,
                   calls, requests, searches, writes>>

\* a gate that takes every answer but "n" for assent
AffirmativeUnlessNo(answer) == answer # <<"n">>

\* line 199
Affirmative(answer) == answer = <<"y">>

\* lines 196-203
Confirm ==
    /\ pc = "prompt"
    /\ calls' = Append(calls, "input")
    /\ \E answer \in Answers :
        /\ proceed' = StrLower(answer)
        /\ IF Affirmative(StrLower(answer))
           THEN pc' = "update" /\ exit' = exit
           ELSE pc' = "Aborted" /\ exit' = "cancelled by user"
    /\ UNCHANGED <<endless, playlist, dest, dest0, offset, all_tracks, apple_tracks, i,
                   found_tracks, not_found_tracks, sorted_track_ids, ci,
                   requests, searches, writes>>

-----------------------------------------------------------------------------
(* update_spotify_playlist *)

\* line 130: key=lambda x: x['artist'].lower()
SortKey(x) == StrLower(x.artist)

\* an insertion that puts x before the elements of equal key
RECURSIVE InsertBeforeEqual(_, _)
InsertBeforeEqual(s, x) ==
    IF s = <<>> THEN <<x>>
    ELSE IF ~StrLess(StrLower(Head(s).artist), StrLower(x.artist)) THEN <<x>> \o s
    ELSE <<Head(s)>> \o InsertBeforeEqual(Tail(s), x)

\* x goes before the first element whose key is greater than its own
RECURSIVE Insert(_, _)
Insert(s, x) ==
    IF s = <<>> THEN <<x>>
    ELSE IF StrLess(SortKey(x), SortKey(Head(s))) THEN <<x>> \o s
    ELSE <<Head(s)>> \o Insert(Tail(s), x)

\* a reconciliation that forgets to sort
Unsorted(tracks) == tracks

\* sorted(track_ids, key=...): Python's sort is stable
RECURSIVE SortedByArtist(_)
SortedByArtist(tracks) ==
    IF tracks = <<>> THEN <<>>
    ELSE Insert(SortedByArtist(SubSeq(tracks, 1, Len(tracks) - 1)), tracks[Len(tracks)])

\* line 131
Ids(tracks) == [k \in 1..Len(tracks) |-> tracks[k].id]

\* a slice one short of the batch size
ChunkOneShort(ids, c) == SubSeq(ids, c + 1, Min(c + ChunkSize - 1, Len(ids)))

\* line 140: sorted_track_ids[i:i + 100]
Chunk(ids, c) == SubSeq(ids, c + 1, Min(c + ChunkSize, Len(ids)))

\* a reconciliation without the empty check of lines 124-126
UpdateStartNoCheck ==
    /\ pc = "update"
    /\ sorted_track_ids' = Ids(SortedByArtist(found_tracks))
    /\ pc' = "replace"
    /\ exit' = exit
    /\ UNCHANGED <<endless, playlist, dest, dest0, offset, all_tracks, apple_tracks, i,
                   found_tracks, not_found_tracks, proceed, ci,
                   calls, requests, searches, writes>>

\* lines 124-133
UpdateStart ==
    /\ pc = "update"
    /\ IF found_tracks = <<>>
       THEN /\ pc' = "Aborted"
            /\ exit' = "no tracks to add"
            /\ UNCHANGED sorted_track_ids
       ELSE /\ sorted_track_ids' = Ids(SortedByArtist(found_tracks))
            /\ pc' = "replace"
            /\ exit' = exit
    /\ UNCHANGED <<endless, playlist, dest, dest0, offset, all_tracks, apple_tracks, i,
                   found_tracks, not_found_tracks, proceed, ci,
                   calls, requests, searches, writes>>

\* lines 134-136 (and 144-145 when the call raises)
ReplaceItems ==
    /\ pc = "replace"
    /\ calls' = Append(calls, "playlist_replace_items")
    /\ \E ok \in BOOLEAN :
        /\ writes' = Append(writes, [op |-> "playlist_replace_items", items |-> <<>>, ok |-> ok])
        /\ IF ok
           THEN /\ dest' = <<>>
                /\ ci' = 0
                /\ pc' = "add"
                /\ exit' = exit
           ELSE /\ pc' = "Aborted"
                /\ exit' = "update error"
                /\ UNCHANGED <<dest, ci>>
    /\ UNCHANGED <<endless, playlist, dest0, offset, all_tracks, apple_tracks, i,
                   found_tracks, not_found_tracks, proceed, sorted_track_ids,
                   requests, searches>>

\* a chunk loop that catches the failure of a chunk and goes on to the next
AddItemsContinues ==
    /\ pc = "add"
    /\ ci < Len(sorted_track_ids)
    /\ calls' = Append(calls, "playlist_add_items")
    /\ \E ok \in BOOLEAN :
        LET chunk == Chunk(sorted_track_ids, ci) IN
        /\ writes' = Append(writes, [op |-> "playlist_add_items", items |-> chunk, ok |-> ok])
        /\ dest' = IF ok THEN dest \o chunk ELSE dest
        /\ ci' = ci + ChunkSize
        /\ IF ci + ChunkSize < Len(sorted_track_ids)
           THEN UNCHANGED <<pc, exit>>
           ELSE pc' = "Done" /\ exit' = "success"
    /\ UNCHANGED <<endless, playlist, dest0, offset, all_tracks, apple_tracks, i,
                   found_tracks, not_found_tracks, proceed, sorted_track_ids,
                   requests, searches>>

\* lines 139-145: one iteration of the chunk loop; after the last chunk, line 143
AddItems ==
    /\ pc = "add"
    /\ ci < Len(sorted_track_ids)
    /\ calls' = Append(calls, "playlist_add_items")
    /\ \E ok \in BOOLEAN :
        LET chunk == Chunk(sorted_track_ids, ci) IN
        /\ writes' = Append(writes, [op |-> "playlist_add_items", items |-> chunk, ok |-> ok])
        /\ IF ok
           THEN /\ dest' = dest \o chunk
                /\ ci' = ci + ChunkSize
                /\ IF ci + ChunkSize < Len(sorted_track_ids)
                   THEN UNCHANGED <<pc, exit>>
                   ELSE pc' = "Done" /\ exit' = "success"
           ELSE /\ pc' = "Aborted"
                /\ exit' = "update error"
                /\ UNCHANGED <<dest, ci>>
    /\ UNCHANGED <<endless, playlist, dest0, offset, all_tracks, apple_tracks, i,
                   found_tracks, not_found_tracks, proceed, sorted_track_ids,
                   requests, searches>>

-----------------------------------------------------------------------------
(* Specifications *)

\* a whole run of main
Init ==
    /\ pc = "auth"
    /\ exit = ""
    /\ endless = FALSE
    /\ playlist \in SeqsUpTo(RunRawKinds, MaxRunRaw)
    /\ dest \in InitialDests
    /\ dest0 = dest
    /\ offset = 0
    /\ all_tracks = <<>>
    /\ apple_tracks = None
    /\ i = 0
    /\ found_tracks = <<>>
    /\ not_found_tracks = <<>>
    /\ proceed = <<>>
    /\ sorted_track_ids = <<>>
    /\ ci = 0
    /\ calls = <<>>
    /\ requests = <<>>
    /\ searches = <<>>
    /\ writes = <<>>

Next ==
    \/ Authenticate
    \/ Connect
    \/ FetchPage
    \/ MatchTrack
    \/ Review
    \/ Confirm
    \/ UpdateStart
    \/ ReplaceItems
    \/ AddItems

Spec == Init /\ [][Next]_vars

\* get_apple_music_tracks on every playlist of up to MaxRaw raw records
InitFetch ==
    /\ pc = "connect"
    /\ exit = ""
    /\ endless = FALSE
    /\ playlist \in SeqsUpTo(RawKinds, MaxRaw)
    /\ dest \in {<<>>}
    /\ dest0 = dest
    /\ offset = 0
    /\ all_tracks = <<>>
    /\ apple_tracks = None
    /\ i = 0
    /\ found_tracks = <<>>
    /\ not_found_tracks = <<>>
    /\ proceed = <<>>
    /\ sorted_track_ids = <<>>
    /\ ci = 0
    /\ calls = <<"me">>
    /\ requests = <<>>
    /\ searches = <<>>
    /\ writes = <<>>

NextFetch == Connect \/ FetchPage

SpecFetch == InitFetch /\ [][NextFetch]_vars

\* find_spotify_tracks on every list of up to MaxTracks source tracks
InitMatch ==
    /\ pc = "match"
    /\ exit = ""
    /\ endless = FALSE
    /\ all_tracks \in SeqsUpTo(MatchTracks, MaxTracks) \ {<<>>}
    /\ apple_tracks = List(all_tracks)
    /\ playlist = [k \in 1..Len(all_tracks) |->
                      RawTrack(all_tracks[k].artist, all_tracks[k].name)]
    /\ dest \in {<<>>}
    /\ dest0 = dest
    /\ offset = 0
    /\ i = 0
    /\ found_tracks = <<>>
    /\ not_found_tracks = <<>>
    /\ proceed = <<>>
    /\ sorted_track_ids = <<>>
    /\ ci = 0
    /\ calls = <<>>
    /\ requests = <<>>
    /\ searches = <<>>
    /\ writes = <<>>

NextMatch == MatchTrack \/ Review

SpecMatch == InitMatch /\ [][NextMatch]_vars

\* update_spotify_playlist on every list of up to MaxMatched matched tracks
InitReconcile ==
    /\ pc = "update"
    /\ exit = ""
    /\ endless = FALSE
    /\ found_tracks \in SeqsUpTo(MatchedPool, MaxMatched)
    /\ dest \in InitialDests
    /\ dest0 = dest
    /\ playlist = <<>>
    /\ offset = 0
    /\ all_tracks = <<>>
    /\ apple_tracks = List(<<>>)
    /\ i = 0
    /\ not_found_tracks = <<>>
    /\ proceed = <<"y">>
    /\ sorted_track_ids = <<>>
    /\ ci = 0
    /\ calls = <<>>
    /\ requests = <<>>
    /\ searches = <<>>
    /\ writes = <<>>

NextReconcile == UpdateStart \/ ReplaceItems \/ AddItems

SpecReconcile == InitReconcile /\ [][NextReconcile]_vars

\* find_spotify_tracks on one track, for every title of up to MaxTitleLen characters
InitTitle ==
    /\ pc = "match"
    /\ exit = ""
    /\ endless = FALSE
    /\ all_tracks \in {<<SrcTrack(ArtistX, t)>> : t \in Titles}
    /\ apple_tracks = List(all_tracks)
    /\ playlist = [k \in 1..Len(all_tracks) |->
                      RawTrack(all_tracks[k].artist, all_tracks[k].name)]
    /\ dest \in {<<>>}
    /\ dest0 = dest
    /\ offset = 0
    /\ i = 0
    /\ found_tracks = <<>>
    /\ not_found_tracks = <<>>
    /\ proceed = <<>>
    /\ sorted_track_ids = <<>>
    /\ ci = 0
    /\ calls = <<>>
    /\ requests = <<>>
    /\ searches = <<>>
    /\ writes = <<>>

NextTitle == MatchTrack \/ Review

SpecTitle == InitTitle /\ [][NextTitle]_vars

\* the raw records of the playlists of the fair specification
FairRawKinds == {RawTrack(ArtistX, TitleFeat), RawNoAttributes}

\* a whole run of main, against a finite playlist or against a source that
\* answers every offset with a full page
InitFair ==
    /\ pc = "auth"
    /\ exit = ""
    /\ endless \in BOOLEAN
    /\ playlist \in (IF endless THEN {<<>>} ELSE SeqsUpTo(FairRawKinds, MaxFairRaw))
    /\ dest \in InitialDests
    /\ dest0 = dest
    /\ offset = 0
    /\ all_tracks = <<>>
    /\ apple_tracks = None
    /\ i = 0
    /\ found_tracks = <<>>
    /\ not_found_tracks = <<>>
    /\ proceed = <<>>
    /\ sorted_track_ids = <<>>
    /\ ci = 0
    /\ calls = <<>>
    /\ requests = <<>>
    /\ searches = <<>>
    /\ writes = <<>>

\* main runs on: a step that can be taken is taken (every call returns or
\* raises, and the prompt is answered)
SpecFair == InitFair /\ [][Next]_vars /\ WF_vars(Next)

\* a whole run of main, or update_spotify_playlist called on its own
InitRunOrReconcile == Init \/ InitReconcile

SpecRunOrReconcile == InitRunOrReconcile /\ [][Next]_vars

-----------------------------------------------------------------------------
(* Properties *)

Range(s) == {s[k] : k \in 1..Len(s)}
Count(s, x) == Cardinality({k \in 1..Len(s) : s[k] = x})

\* the searches issued for the k-th source track, in order
TrackSearches(k) == SelectSeq(searches, LAMBDA e : e.i = k)
\* a search for the k-th source track raised
Raised(k) == \E e \in Range(TrackSearches(k)) : e.res.kind = "error"
\* the last search for the k-th source track returned an item
Hit(k) ==
    LET ts == TrackSearches(k) IN
    /\ ts # <<>>
    /\ ~Raised(k)
    /\ ts[Len(ts)].res.items # <<>>
\* the item the k-th source track resolved to
HitItem(k) == LET ts == TrackSearches(k) IN ts[Len(ts)].res.items[1]

\* C1: no destination write is issued unless the prompt was reached and the
\* answer, lowered, is "y"; after any other answer the run is cancelled by the
\* user with no write call and the destination playlist as it was.
C1_ConfirmationGate ==
    /\ writes # <<>> => ("input" \in Range(calls) /\ proceed = <<"y">>)
    /\ ("input" \in Range(calls) /\ proceed # <<"y">>) =>
          /\ pc = "Aborted"
          /\ exit = "cancelled by user"
          /\ writes = <<>>
          /\ dest = dest0

\* a run cancelled by the answer "yes", which is not the affirmative "y"
C1_Witness ==
    /\ proceed = <<"y","e","s">>
    /\ exit = "cancelled by user"
    /\ found_tracks # <<>>

\* the place the j-th matched track takes in the order by artist name compared
\* case-insensitively, equal names keeping their relative order
ArtistKey(x) == StrLower(x.artist)
Rank(tracks, j) ==
    1 + Cardinality({k \in 1..Len(tracks) :
                        \/ StrLess(ArtistKey(tracks[k]), ArtistKey(tracks[j]))
                        \/ (k < j /\ ArtistKey(tracks[k]) = ArtistKey(tracks[j]))})

\* C2: after a reconciliation whose replace call and append calls all
\* succeeded, the destination playlist holds exactly the ids of the matched
\* tracks, one entry per matched track, in the order by artist name compared
\* case-insensitively, whatever it held before.
C2_FinalMembership ==
    pc = "Done" =>
        /\ Len(dest) = Len(found_tracks)
        /\ \A j \in 1..Len(found_tracks) :
              dest[Rank(found_tracks, j)] = found_tracks[j].id

\* a playlist that held other entries now holds three matched tracks reordered
C2_Witness ==
    /\ pc = "Done"
    /\ dest0 = <<"t9","t1">>
    /\ Len(found_tracks) = 3
    /\ dest # Ids(found_tracks)

\* C3 as stated: an id is in the final playlist more than once only if the
\* source list held the same (artist, title) track more than once.
C3_NoDuplicatesBeyondSource ==
    pc = "Done" =>
        \A id \in Range(dest) :
            Count(dest, id) > 1 =>
                \E j, k \in 1..Len(apple_tracks.list) :
                    j < k /\ apple_tracks.list[j] = apple_tracks.list[k]

\* C3 amended: an id is in the final playlist once for every source track whose
\* search resolved to it, so it is there more than once exactly when two
\* source tracks, equal or distinct, resolved to the same id.
C3_DuplicatesFromMatching ==
    pc = "Done" =>
        \A id \in Range(dest) \cup {it.id : it \in Catalog} :
            Count(dest, id) =
                Cardinality({k \in 1..Len(apple_tracks.list) :
                                Hit(k) /\ HitItem(k).id = id})

\* two distinct source tracks resolved to one id, which the playlist holds twice
C3_Witness ==
    /\ pc = "Done"
    /\ Len(apple_tracks.list) = 2
    /\ apple_tracks.list[1] # apple_tracks.list[2]
    /\ dest = <<"t1", "t1">>

\* the lists find_spotify_tracks owes after the first k source tracks: a
\* matched track for a track whose last search returned an item, and otherwise
\* an entry that tells a search that raised from a search that found nothing
RECURSIVE OwedFound(_)
OwedFound(k) ==
    IF k = 0 THEN <<>>
    ELSE OwedFound(k - 1) \o
            (IF Hit(k)
             THEN <<[id |-> HitItem(k).id, artist |-> HitItem(k).artists[1].name,
                     name |-> HitItem(k).name]>>
             ELSE <<>>)
RECURSIVE OwedNotFound(_)
OwedNotFound(k) ==
    IF k = 0 THEN <<>>
    ELSE LET t == apple_tracks.list[k] IN
         OwedNotFound(k - 1) \o
            (IF Hit(k) THEN <<>>
             ELSE IF Raised(k) THEN <<ErrorEntry(t.artist, t.name)>>
             ELSE <<NotFoundEntry(t.artist, t.name)>>)

\* C4: whatever the search API answers, every processed source track has
\* exactly one result, in the found list or in the not-found list and not in
\* both, and both lists keep the source order; the loop ends only when every
\* source track is processed.
C4_MatchingTotality ==
    /\ i <= Len(apple_tracks.list)
    /\ Len(found_tracks) + Len(not_found_tracks) = i
    /\ found_tracks = OwedFound(i)
    /\ not_found_tracks = OwedNotFound(i)
    /\ pc # "match" => i = Len(apple_tracks.list)

\* three tracks processed: one search raised, one found nothing, one hit
C4_Witness ==
    /\ pc # "match"
    /\ i = 3
    /\ \E a, b, c \in 1..3 :
          /\ Raised(a)
          /\ Hit(b)
          /\ ~Raised(c) /\ ~Hit(c)

\* the place of the k-th source track in the not-found list
NotFoundPlace(k) == Cardinality({j \in 1..k : ~Hit(j)})

\* C5: a search that raises for a track, on the first or on the second
\* attempt, does not end the loop: the track is entered in the not-found list
\* with the search-error tag, which is not the entry of a track that was not
\* found, and every later track is searched and gets its own result.
C5_SearchErrorIsolation ==
    /\ \A k \in 1..i :
          Raised(k) =>
              LET t == apple_tracks.list[k] IN
              /\ NotFoundPlace(k) <= Len(not_found_tracks)
              /\ not_found_tracks[NotFoundPlace(k)] = ErrorEntry(t.artist, t.name)
              /\ ErrorEntry(t.artist, t.name) # NotFoundEntry(t.artist, t.name)
    /\ \A k \in 1..i : TrackSearches(k) # <<>>
    /\ pc # "match" =>
          /\ i = Len(apple_tracks.list)
          /\ exit \in {"", "no tracks to sync"}

\* the second search of the first track raised and the track after it was found
C5_Witness ==
    /\ i >= 2
    /\ Len(TrackSearches(1)) = 2
    /\ Raised(1)
    /\ Hit(2)
    /\ pc = "prompt"

\* get_apple_music_tracks returned a list
Fetched == ~apple_tracks.none /\ pc # "connect" /\ pc # "page"

\* the usable entries of the whole playlist, in playlist order
WellformedPlaces == {j \in 1..Len(playlist) : Wellformed(playlist[j])}
UsablePlace(j) == Cardinality({k \in WellformedPlaces : k <= j})

\* C6: the page requests go to offsets 0, PageLimit, 2*PageLimit, ... and stop
\* at the first page shorter than PageLimit, so a playlist of L raw records
\* takes L \div PageLimit + 1 requests; the list returned holds the usable
\* entries of the playlist, each once, in playlist order.
C6_PaginationTotality ==
    /\ \A k \in 1..Len(requests) : requests[k].offset = (k - 1) * PageLimit
    /\ \A k \in 1..Len(requests) - 1 : requests[k].ok /\ requests[k].n = PageLimit
    /\ Fetched =>
          /\ Len(requests) = (Len(playlist) \div PageLimit) + 1
          /\ requests[Len(requests)].n = Len(playlist) % PageLimit
          /\ Len(apple_tracks.list) = Cardinality(WellformedPlaces)
          /\ \A j \in WellformedPlaces :
                apple_tracks.list[UsablePlace(j)] =
                    [artist |-> playlist[j].attributes.artistName,
                     name |-> playlist[j].attributes.name]

\* a playlist of two full pages and a short one, all of its entries returned
C6_Witness ==
    /\ Fetched
    /\ Len(requests) = 3
    /\ requests[3].n > 0
    /\ Len(apple_tracks.list) = Len(playlist)

\* the raw records of the page at offset off
PagePlaces(off) == {j \in 1..Len(playlist) : off < j /\ j <= off + PageLimit}
FullPageWithMalformed(off) ==
    /\ Cardinality(PagePlaces(off)) = PageLimit
    /\ \E j \in PagePlaces(off) : ~Wellformed(playlist[j])

\* C7: a record without 'attributes', 'artistName' or 'name' is left out of
\* the result, and a full page that holds such records is not the last one:
\* the page after it is requested, and every well-formed record of every page
\* is in the result.
C7_MalformedRecordSkip ==
    Fetched =>
        /\ \A k \in 1..Len(requests) :
              FullPageWithMalformed(requests[k].offset) =>
                  /\ k < Len(requests)
                  /\ requests[k + 1].offset = requests[k].offset + PageLimit
        /\ \A j \in WellformedPlaces :
              /\ UsablePlace(j) <= Len(apple_tracks.list)
              /\ apple_tracks.list[UsablePlace(j)].name = playlist[j].attributes.name
              /\ apple_tracks.list[UsablePlace(j)].artist = playlist[j].attributes.artistName
        /\ Len(apple_tracks.list) = Len(playlist) - Cardinality({j \in 1..Len(playlist) : ~Wellformed(playlist[j])})

\* a full first page with a malformed record in front of a well-formed one,
\* and a well-formed record on a later page, all well-formed ones returned
C7_Witness ==
    /\ Fetched
    /\ Len(playlist) > PageLimit
    /\ ~Wellformed(playlist[1])
    /\ Wellformed(playlist[2])
    /\ Wellformed(playlist[Len(playlist)])
    /\ Len(apple_tracks.list) = Len(playlist) - 1

\* the usable entries of the page at offset off
UsableOnPage(off) == Cardinality(PagePlaces(off) \cap WellformedPlaces)

\* C8 as stated: malformed entries do not count toward the page-size check,
\* that is, a page with fewer than PageLimit usable entries ends the loop.
C8_MalformedNotCounted ==
    \A k \in 1..Len(requests) :
        (requests[k].ok /\ UsableOnPage(requests[k].offset) < PageLimit) =>
            (k = Len(requests) /\ pc # "page")

\* C8 amended: malformed entries are left out of the result but do count
\* toward the page-size check: a page ends the loop exactly when it holds
\* fewer than PageLimit raw records, malformed ones included.
C8_MalformedCounted ==
    \A k \in 1..Len(requests) :
        requests[k].ok =>
            ((k = Len(requests) /\ pc # "page")
                <=> Cardinality(PagePlaces(requests[k].offset)) < PageLimit)

\* a full first page of malformed records only, after which the loop went on
C8_Witness ==
    /\ Len(requests) >= 2
    /\ requests[2].ok
    /\ UsableOnPage(0) = 0
    /\ Cardinality(PagePlaces(0)) = PageLimit

\* the append calls among the write calls
Appends == SelectSeq(writes, LAMBDA w : w.op = "playlist_add_items")
RECURSIVE Concat(_)
Concat(ws) == IF ws = <<>> THEN <<>> ELSE Head(ws).items \o Concat(Tail(ws))

\* C9: reconciling n > 0 matched tracks issues one replace call with an empty
\* item list and then ceil(n / ChunkSize) append calls; every chunk holds
\* between 1 and ChunkSize ids, every chunk but the last holds ChunkSize, and
\* the chunks in call order make up the sorted id list.
C9_BatchChunking ==
    /\ writes # <<>> =>
          /\ writes[1].op = "playlist_replace_items"
          /\ writes[1].items = <<>>
          /\ \A k \in 2..Len(writes) : writes[k].op = "playlist_add_items"
    /\ \A k \in 1..Len(Appends) :
          /\ Len(Appends[k].items) >= 1
          /\ Len(Appends[k].items) <= ChunkSize
          /\ k < Len(Appends) => Len(Appends[k].items) = ChunkSize
    /\ pc = "Done" =>
          /\ Len(found_tracks) > 0
          /\ Len(Appends) = (Len(found_tracks) + ChunkSize - 1) \div ChunkSize
          /\ Concat(Appends) = sorted_track_ids
          /\ Len(sorted_track_ids) = Len(found_tracks)

\* five matched tracks appended in chunks of 2, 2 and 1
C9_Witness ==
    /\ pc = "Done"
    /\ Len(found_tracks) = 2 * ChunkSize + 1
    /\ Len(Appends) = 3
    /\ Len(Appends[3].items) = 1

\* C10: the matched tracks are ordered by artist name compared
\* case-insensitively, tracks whose artist names are equal ignoring case keep
\* their relative order, and the ordered ids are a permutation of the input's.
C10_SortStability ==
    (pc \in {"replace", "add", "Done"} /\ found_tracks # <<>>) =>
        /\ Len(sorted_track_ids) = Len(found_tracks)
        /\ \A j \in 1..Len(found_tracks) :
              sorted_track_ids[Rank(found_tracks, j)] = found_tracks[j].id
        /\ \A id \in Range(sorted_track_ids) \cup Range(Ids(found_tracks)) :
              Count(sorted_track_ids, id) = Count(Ids(found_tracks), id)

\* [Ze#1, al, Ze#2] is ordered [al, Ze#1, Ze#2]
C10_Witness ==
    /\ pc = "replace"
    /\ Ids(found_tracks) = <<"t1", "t2", "t3">>
    /\ sorted_track_ids = <<"t2", "t1", "t3">>


\* the search loop has ended
Searched == ~apple_tracks.none /\ pc \notin {"auth", "connect", "page", "match"}

\* C11: with zero matched tracks update_spotify_playlist issues no replace
\* and no append call and leaves the destination playlist as it was; a run
\* whose search matched nothing ends in Aborted after the report, without
\* prompting and without a destination write.
C11_EmptyInputNoOp ==
    found_tracks = <<>> =>
        /\ writes = <<>>
        /\ dest = dest0
        /\ pc \notin {"prompt", "replace", "add", "Done"}
        /\ (Searched /\ pc # "update") =>
              /\ pc = "Aborted"
              /\ exit \in {"no tracks to sync", "no tracks to add", "nothing fetched"}
        /\ "input" \notin Range(calls)

\* a run whose two source tracks were searched and not matched ended without
\* a prompt, the playlist still holding what it held
C11_Witness ==
    /\ exit = "no tracks to sync"
    /\ i = 2
    /\ found_tracks = <<>>
    /\ dest0 # <<>>
    /\ dest = dest0


\* C12: a fatal condition other than an update failure ends the run without a
\* destination write: after a failed identity check there is no fetch, search
\* or write call; after a failed fetch or a fetch that returned an empty list
\* there is no search or write call; the destination playlist is as it was.
C12_FatalWithoutWrite ==
    /\ exit = "auth error" =>
          /\ pc = "Aborted"
          /\ calls = <<"me">>
          /\ requests = <<>> /\ searches = <<>> /\ writes = <<>>
          /\ dest = dest0
    /\ exit \in {"fetch error", "nothing fetched"} =>
          /\ pc = "Aborted"
          /\ Falsy(apple_tracks)
          /\ "search" \notin Range(calls)
          /\ searches = <<>> /\ writes = <<>>
          /\ dest = dest0
    /\ (pc = "Aborted" /\ exit # "update error") =>
          /\ writes = <<>>
          /\ dest = dest0
    /\ (pc \in {"match", "prompt", "update", "replace", "add", "Done"}) =>
          /\ ~Falsy(apple_tracks)
          /\ Head(calls) = "me"

\* a run that ended at the failed identity check of a non-empty playlist
C12_Witness ==
    /\ exit = "auth error"
    /\ playlist # <<>>
    /\ dest0 # <<>>

\* C13: when a page request fails, on the first page or after pages that were
\* read, get_apple_music_tracks returns None and none of the tracks read so
\* far, and the run ends without a search or write call.
C13_NoPartialFetch ==
    \A k \in 1..Len(requests) :
        ~requests[k].ok =>
            /\ k = Len(requests)
            /\ apple_tracks.none
            /\ apple_tracks.list = <<>>
            /\ pc = "Aborted"
            /\ exit = "fetch error"
            /\ searches = <<>> /\ writes = <<>>
            /\ "search" \notin Range(calls)
            /\ dest = dest0

\* the second page request failed after a first page with usable tracks
C13_Witness ==
    /\ Len(requests) = 2
    /\ ~requests[2].ok
    /\ all_tracks # <<>>
    /\ pc = "Aborted"

\* C14: when the replace call or the k-th append call fails, the run ends in
\* Aborted with the update error and never in Done, the failed call is the
\* last write call, nothing is rolled back: the playlist is as it was before
\* the run (replace failed) or holds the first k-1 chunks of the sorted ids.
C14_UpdateFailure ==
    /\ \A k \in 1..Len(writes) :
          ~writes[k].ok =>
              /\ k = Len(writes)
              /\ pc = "Aborted"
              /\ exit = "update error"
              /\ IF k = 1
                 THEN dest = dest0
                 ELSE dest = SubSeq(sorted_track_ids, 1, (k - 2) * ChunkSize)
    /\ exit = "update error" => (writes # <<>> /\ ~writes[Len(writes)].ok)
    /\ pc = "Done" => \A k \in 1..Len(writes) : writes[k].ok

\* the third append call failed: the playlist holds the first two chunks
C14_Witness ==
    /\ exit = "update error"
    /\ Len(writes) = 4
    /\ Len(dest) = 2 * ChunkSize
    /\ Len(sorted_track_ids) > Len(dest)
    /\ dest0 # <<>>


\* the title holds a parenthetical "(...)" or a bracketed "[...]" span
HasSpan(s) ==
    \E p, q \in 1..Len(s) :
        /\ p < q
        /\ \/ (s[p] = "(" /\ s[q] = ")")
           \/ (s[p] = "[" /\ s[q] = "]")
\* the title starts or ends with whitespace
Padded(s) == s # <<>> /\ (IsSpace(s[1]) \/ IsSpace(s[Len(s)]))
\* the first search for the k-th source track returned no item
FirstEmpty(k) ==
    LET ts == TrackSearches(k) IN
    ts # <<>> /\ ts[1].res.kind = "ok" /\ ts[1].res.items = <<>>
\* the k-th source track got one search and the "not found" entry
OneSearchNotFound(k) ==
    LET t == apple_tracks.list[k] IN
    /\ Len(TrackSearches(k)) = 1
    /\ CleanTitle(t.name) = t.name
    /\ NotFoundPlace(k) <= Len(not_found_tracks)
    /\ not_found_tracks[NotFoundPlace(k)] = NotFoundEntry(t.artist, t.name)

\* C15 as stated: a title without a "(...)" or "[...]" span is left unchanged
\* by the cleaning, and a track with such a title whose first search returned
\* nothing gets exactly one search call and the "not found" entry.
C15_NoSpanOneSearch ==
    \A k \in 1..i :
        (~HasSpan(apple_tracks.list[k].name) /\ FirstEmpty(k)) => OneSearchNotFound(k)

\* C15 amended: the same for a title that has no such span and neither starts
\* nor ends with whitespace; a title that only has surrounding whitespace is
\* changed by the trimming and is searched a second time.
C15_NoSpanNoPaddingOneSearch ==
    \A k \in 1..i :
        LET name == apple_tracks.list[k].name IN
        /\ (~HasSpan(name) /\ ~Padded(name) /\ FirstEmpty(k)) => OneSearchNotFound(k)
        /\ (~HasSpan(name) /\ Padded(name) /\ FirstEmpty(k)) => Len(TrackSearches(k)) = 2

\* the title "S(" has an unclosed parenthesis and no span: one search, not found
C15_Witness ==
    /\ i = 1
    /\ apple_tracks.list[1].name = <<"S", "(">>
    /\ FirstEmpty(1)
    /\ Len(searches) = 1
    /\ Len(not_found_tracks) = 1

\* the spans of a title from position p on, each from its opening character
\* to the first matching closing character after it
Closer(c) == IF c = "(" THEN ")" ELSE "]"
Opens(s, q) ==
    /\ s[q] \in {"(", "["}
    /\ \E r \in q + 1..Len(s) : s[r] = Closer(s[q])
RECURSIVE Spans(_, _)
Spans(s, p) ==
    LET opens == {q \in p..Len(s) : Opens(s, q)} IN
    IF opens = {} THEN {}
    ELSE LET q == CHOOSE x \in opens : \A y \in opens : x <= y
             r == CHOOSE x \in q + 1..Len(s) :
                     /\ s[x] = Closer(s[q])
                     /\ \A y \in q + 1..x - 1 : s[y] # Closer(s[q])
         IN  {<<q, r>>} \cup Spans(s, r + 1)
\* the positions inside the spans
InSpans(s) == {j \in 1..Len(s) : \E sp \in Spans(s, 1) : sp[1] <= j /\ j <= sp[2]}
\* the positions of the whitespace that runs up to the start of a span
BeforeSpans(s) ==
    {j \in 1..Len(s) :
        \E sp \in Spans(s, 1) : j < sp[1] /\ \A y \in j..sp[1] - 1 : IsSpace(s[y])}
\* the title without the positions in D
RECURSIVE Without(_, _, _)
Without(s, D, p) ==
    IF p > Len(s) THEN <<>>
    ELSE (IF p \in D THEN <<>> ELSE <<s[p]>>) \o Without(s, D, p + 1)
\* the title without its surrounding whitespace
Trimmed(s) ==
    LET solid == {k \in 1..Len(s) : ~IsSpace(s[k])} IN
    IF solid = {} THEN <<>>
    ELSE SubSeq(s, CHOOSE a \in solid : \A b \in solid : a <= b,
                   CHOOSE a \in solid : \A b \in solid : a >= b)

\* the second search of the k-th source track asked for the title term and
\* the track's own artist, and its response decided the track's result
FallbackWith(k, term) ==
    LET t == apple_tracks.list[k]
        ts == TrackSearches(k) IN
    /\ Len(ts) = 2
    /\ ts[1].q = Query(t.name, t.artist)
    /\ ts[2].q = Query(term, t.artist)
    /\ (ts[2].res.kind = "ok" /\ ts[2].res.items # <<>>) =>
          /\ Len(found_tracks) >= k - NotFoundPlace(k)
          /\ k - NotFoundPlace(k) >= 1
          /\ found_tracks[k - NotFoundPlace(k)].id = ts[2].res.items[1].id
    /\ (ts[2].res.kind = "ok" /\ ts[2].res.items = <<>>) =>
          /\ NotFoundPlace(k) <= Len(not_found_tracks)
          /\ not_found_tracks[NotFoundPlace(k)] = NotFoundEntry(t.artist, t.name)

\* C16 as stated: when the exact search returns nothing and the title holds a
\* span, the second search asks for the title with every span removed and the
\* surrounding whitespace trimmed.
C16_FallbackSpansOnly ==
    \A k \in 1..i :
        LET name == apple_tracks.list[k].name IN
        (HasSpan(name) /\ FirstEmpty(k)) =>
            FallbackWith(k, Trimmed(Without(name, InSpans(name), 1)))

\* C16 amended: the second search asks for the title with every span removed
\* together with the whitespace that runs up to the span, and the surrounding
\* whitespace trimmed; the artist term is unchanged, a hit makes the track
\* matched and an empty result makes it "not found".
C16_FallbackCorrectness ==
    \A k \in 1..i :
        LET name == apple_tracks.list[k].name IN
        (HasSpan(name) /\ FirstEmpty(k)) =>
            FallbackWith(k, Trimmed(Without(name, InSpans(name) \cup BeforeSpans(name), 1)))

\* "S (f)": the exact search found nothing, the search for "S" hit
C16_Witness ==
    /\ i = 1
    /\ apple_tracks.list[1].name = TitleFeat
    /\ FirstEmpty(1)
    /\ Len(searches) = 2
    /\ searches[2].q = Query(TitleS, ArtistX)
    /\ Len(found_tracks) = 1


\* the orchestrator state a position of the program belongs to:
\* 1 Authenticating, 2 Fetching, 3 Matching, 4 AwaitingConfirmation,
\* 5 Reconciling, 6 Done, 0 Aborted
Phase(p) ==
    CASE p = "auth" -> 1
      [] p \in {"connect", "page"} -> 2
      [] p = "match" -> 3
      [] p = "prompt" -> 4
      [] p \in {"update", "replace", "add"} -> 5
      [] p = "Done" -> 6
      [] p = "Aborted" -> 0
\* the stage an external call belongs to
CallRank(c) ==
    CASE c = "me" -> 1
      [] c = "playlist_relationship" -> 2
      [] c = "search" -> 3
      [] c = "input" -> 4
      [] c \in {"playlist_replace_items", "playlist_add_items"} -> 5
\* identity check, fetch requests, searches, prompt and writes come in this order
CallsOrdered ==
    /\ \A a \in 1..Len(calls) - 1 : CallRank(calls[a]) <= CallRank(calls[a + 1])
    /\ Count(calls, "me") <= 1
    /\ Count(calls, "input") <= 1
\* the reason of an abort names the state it was taken from
AbortedFrom(p) ==
    CASE p = 1 -> {"auth error"}
      [] p = 2 -> {"fetch error", "nothing fetched"}
      [] p = 3 -> {"no tracks to sync"}
      [] p = 4 -> {"cancelled by user"}
      [] p = 5 -> {"update error"}

\* C17: every step of a run stays in its orchestrator state, moves to the next
\* one or aborts; no step leaves Done or Aborted; and the calls made so far are
\* ordered identity check, fetch requests, searches, prompt, writes.
C17_ForwardOnly ==
    [][/\ pc \notin {"Done", "Aborted"}
       /\ \/ Phase(pc') \in {Phase(pc), Phase(pc) + 1}
          \/ pc' = "Aborted" /\ exit' \in AbortedFrom(Phase(pc))
       /\ CallsOrdered']_vars

\* a run that went through every state and made every kind of call
C17_Witness ==
    /\ pc = "Done"
    /\ Range(calls) = {"me", "playlist_relationship", "search", "input",
                       "playlist_replace_items", "playlist_add_items"}


\* the page loop is over and every request was answered
FetchReturned ==
    /\ pc \notin {"auth", "connect", "page"}
    /\ requests # <<>>
    /\ \A k \in 1..Len(requests) : requests[k].ok
\* the run ended as "found nothing": empty list, no search, no write
FoundNothing ==
    /\ apple_tracks = List(<<>>)
    /\ pc = "Aborted"
    /\ exit = "nothing fetched"
    /\ searches = <<>> /\ writes = <<>>
    /\ dest = dest0

\* C18 as stated: when the first page holds zero usable entries the fetch
\* ends as "found nothing" and the run aborts without searching or writing.
C18_FirstPageEmptyFoundNothing ==
    (FetchReturned /\ UsableOnPage(0) = 0) => FoundNothing

\* C18 amended: when the pages fetched hold zero usable entries altogether
\* (as with a short first page that has none) the fetch returns the empty
\* list, which is not the None of a failure, and the run aborts without
\* searching or writing; a full first page with zero usable entries is
\* followed by a request for the next page, and usable entries of later
\* pages are returned and searched for.
C18_NothingUsableFoundNothing ==
    /\ (FetchReturned /\ WellformedPlaces = {}) => FoundNothing
    /\ (FetchReturned /\ WellformedPlaces # {}) =>
          /\ Len(apple_tracks.list) = Cardinality(WellformedPlaces)
          /\ exit # "nothing fetched"
    /\ (FetchReturned /\ UsableOnPage(0) = 0 /\ Len(playlist) >= PageLimit) =>
          Len(requests) >= 2
    /\ exit = "nothing fetched" => (~apple_tracks.none /\ FetchReturned)
    /\ exit = "fetch error" =>
          (apple_tracks.none /\ ~FetchReturned /\ searches = <<>> /\ writes = <<>>)

\* a short first page that holds one record, without attributes
C18_Witness ==
    /\ playlist = <<RawNoAttributes>>
    /\ Len(requests) = 1
    /\ requests[1].ok
    /\ FoundNothing


\* the artist name the destination's catalogue holds for a track id
DestArtist(id) == (CHOOSE it \in Catalog : it.id = id).artists[1].name

\* C19: a matched track holds the id, the first artist's name and the title
\* of the first item of the search that hit, not the source's artist and
\* title; the ids sent to the destination are in the order of the artist
\* names the destination returned, compared case-insensitively.
C19_DestinationMetadata ==
    /\ LET hit == [k \in 1..i |-> Hit(k)]
           place == [k \in 1..i |-> Cardinality({j \in 1..k : hit[j]})]
       IN  \A k \in 1..i :
               hit[k] =>
                   LET it == HitItem(k) IN
                   /\ place[k] \in 1..Len(found_tracks)
                   /\ found_tracks[place[k]].id = it.id
                   /\ found_tracks[place[k]].artist = it.artists[1].name
                   /\ found_tracks[place[k]].name = it.name
    /\ pc \in {"replace", "add", "Done"} =>
          \A a \in 1..Len(sorted_track_ids) - 1 :
              ~StrLess(StrLower(DestArtist(sorted_track_ids[a + 1])),
                       StrLower(DestArtist(sorted_track_ids[a])))

\* source tracks (X, "S (f)") and (X, "S") resolved to (Ze, "S") and (al, "S"):
\* the matched tracks hold the destination's names and al goes first
C19_Witness ==
    /\ pc = "Done"
    /\ apple_tracks.list = <<SrcTrack(ArtistX, TitleFeat), SrcTrack(ArtistX, TitleS)>>
    /\ found_tracks = <<FoundTrack(ItemZe1), FoundTrack(ItemAl)>>
    /\ found_tracks[1].name # apple_tracks.list[1].name
    /\ found_tracks[1].artist # apple_tracks.list[1].artist
    /\ sorted_track_ids = <<"t2", "t1">>


\* the page loop is left only by a raised error or after a short page
LoopExit ==
    (pc = "page" /\ pc' # "page") =>
        LET r == requests'[Len(requests')] IN
        ~r.ok \/ r.n < PageLimit
\* against a source of full pages only, the fetch has not returned a list, and
\* the run has ended only if the identity check or a request raised
EndlessFetching ==
    /\ apple_tracks.none
    /\ \A k \in 1..Len(requests) : requests[k].ok => requests[k].n = PageLimit
    /\ pc \in {"auth", "connect", "page", "Aborted"}
    /\ pc = "Aborted" => exit \in {"auth error", "fetch error"}
\* at most two searches per source track, one when the first search hit
SearchBound ==
    /\ \A k \in 1..Len(apple_tracks.list) :
          LET ts == TrackSearches(k) IN
          /\ Len(ts) <= 2
          /\ (ts # <<>> /\ ts[1].res.items # <<>>) => Len(ts) = 1
    /\ Len(searches) <= 2 * Len(apple_tracks.list)
\* at most one replace call and one append call per chunk of matched tracks
WriteBound ==
    Len(writes) <= 1 + (Len(found_tracks) + ChunkSize - 1) \div ChunkSize

\* C20: a run against a source that serves a short page ends in Done or
\* Aborted; the page loop is left only after a short page or by a raised
\* error, so against a source of full pages only the fetch never returns; at
\* most two searches are made per source track, exactly one when the first
\* hit; and at most 1 + ceil(n/ChunkSize) write calls are made for n matched
\* tracks.
C20_Termination ==
    /\ <>(endless \/ pc \in {"Done", "Aborted"})
    /\ [](endless => EndlessFetching)
    /\ [][LoopExit]_vars
    /\ [](SearchBound /\ WriteBound)

\* a finished run: a full page and an empty one fetched, two tracks found, one
\* of them by the second search, written with one replace and one append call
C20_Witness ==
    /\ pc = "Done"
    /\ ~endless
    /\ Len(requests) = 2
    /\ Len(found_tracks) = 2
    /\ Len(TrackSearches(1)) = 1
    /\ Len(TrackSearches(2)) = 2
    /\ Len(writes) = 1 + (Len(found_tracks) + ChunkSize - 1) \div ChunkSize

====
